---------------------------- MODULE Spec2Model ----------------------------
(* The temporary-file lifecycle of the PDF plugin server: POST /generate-pdf *)
(* and POST /edit-pdf write a PDF under a fresh uuid file name in tempDir,   *)
(* answer with a download URL and schedule a 300000 ms cleanup timer;        *)
(* GET /download/:fileId/:filename serves the file.  Two versions of the     *)
(* server are modelled: src/index.js (lines 132-301, the PDF is buffered and *)
(* written with writeFileSync) and src/unnamed/part_006 (the PDF is piped    *)
(* into a write stream opened on the final path).                            *)
EXTENDS Integers, Sequences, FiniteSets, TLC

(***************************************************************************)
(* Bounds of the model.                                                    *)
(***************************************************************************)
\* how many distinct values uuidv4() can return in one behaviour
MaxFiles == 2
\* clock ticks per retention window
TicksPerWindow == 1
\* the clock stops after this many ticks
MaxTicks == 2
\* PDF documents being rendered at once (doc 'end' / 'finish' still pending)
MaxDocs == 1
\* downloads in flight at once (res.download called, not yet answered)
MaxDownloads == 1

(***************************************************************************)
(* Strings are sequences of one-character strings.  SUR stands for a lone  *)
(* UTF-16 surrogate code unit (for example "\uD800").                      *)
(***************************************************************************)
SUR == "SUR"
Str(t) == [ty |-> "string", s |-> t]
\* a JSON number given where a string is expected; s is its String() form
Num(t) == [ty |-> "number", s |-> t]

DotPdf == <<".", "p", "d", "f">>

UpperOf == [c \in {"a", "b", "c", "d", "e", "f", "p", "x"} |->
              CASE c = "a" -> "A" [] c = "b" -> "B" [] c = "c" -> "C"
                [] c = "d" -> "D" [] c = "e" -> "E" [] c = "f" -> "F"
                [] c = "p" -> "P" [] c = "x" -> "X"]
LowerLetters == DOMAIN UpperOf
UpperLetters == {UpperOf[c] : c \in LowerLetters}
Digits == {"0", "1", "2", "3", "5"}

\* String.prototype.toLowerCase, one code unit at a time
LowerChar(c) ==
  IF c \in UpperLetters THEN CHOOSE l \in LowerLetters : UpperOf[l] = c ELSE c
toLowerCase(t) == [i \in 1..Len(t) |-> LowerChar(t[i])]

\* String.prototype.endsWith
endsWith(t, suf) ==
  /\ Len(t) >= Len(suf)
  /\ SubSeq(t, Len(t) - Len(suf) + 1, Len(t)) = suf

\* the characters encodeURIComponent leaves alone
Unreserved ==
  LowerLetters \cup UpperLetters \cup Digits \cup {"-", "_", ".", "!", "~", "*", "'", "(", ")"}
\* the percent-encoding of the other characters of the model's alphabet
PercentOf(c) ==
  CASE c = "/"  -> <<"%", "2", "F">>
    [] c = "\\" -> <<"%", "5", "C">>
    [] c = "%"  -> <<"%", "2", "5">>
    [] c = " "  -> <<"%", "2", "0">>
    [] OTHER    -> <<"%", "3", "F">>

RECURSIVE EncodeChars(_)
EncodeChars(t) ==
  IF t = <<>> THEN <<>>
  ELSE (IF Head(t) \in Unreserved THEN <<Head(t)>> ELSE PercentOf(Head(t)))
       \o EncodeChars(Tail(t))
\* encodeURIComponent(v): String(v) percent-encoded; a lone surrogate throws
\* URIError ("URI malformed")
encodeURIComponent(v) ==
  IF \E i \in 1..Len(v.s) : v.s[i] = SUR
  THEN [threw |-> TRUE, s |-> <<>>]
  ELSE [threw |-> FALSE, s |-> EncodeChars(v.s)]

\* /^[a-zA-Z0-9-]+\.pdf$/.test(fileId)
FileIdRegexTest(fileId) ==
  /\ Len(fileId) >= Len(DotPdf) + 1
  /\ endsWith(fileId, DotPdf)
  /\ \A i \in 1..(Len(fileId) - Len(DotPdf)) :
       fileId[i] \in LowerLetters \cup UpperLetters \cup Digits \cup {"-"}

(***************************************************************************)
(* Paths are sequences of segments; a segment is a string.                 *)
(***************************************************************************)
RECURSIVE SplitSlash(_, _)
\* the segments of t between "/" (and "\\" is an ordinary character on POSIX)
SplitSlash(t, cur) ==
  IF t = <<>> THEN <<cur>>
  ELSE IF Head(t) = "/" THEN <<cur>> \o SplitSlash(Tail(t), <<>>)
       ELSE SplitSlash(Tail(t), Append(cur, Head(t)))

RECURSIVE Normalize(_, _)
\* path.normalize: "" and "." segments dropped, ".." removes the segment before
Normalize(segs, acc) ==
  IF segs = <<>> THEN acc
  ELSE LET h == Head(segs) IN
       IF h = <<>> \/ h = <<".">> THEN Normalize(Tail(segs), acc)
       ELSE IF h = <<".", ".">>
            THEN Normalize(Tail(segs),
                           IF acc = <<>> THEN acc ELSE SubSeq(acc, 1, Len(acc) - 1))
            ELSE Normalize(Tail(segs), Append(acc, h))

\* path.join(dir, rel)
pathJoin(dir, rel) == Normalize(dir \o SplitSlash(rel, <<>>), <<>>)

\* os.tmpdir()
osTmpdir == << <<"t", "m", "p">> >>
\* const tempDir = path.join(os.tmpdir(), 'pdf-plugin-files')
tempDir ==
  pathJoin(osTmpdir,
           <<"p", "d", "f", "-", "p", "l", "u", "g", "i", "n", "-", "f", "i", "l", "e", "s">>)

(***************************************************************************)
(* Inputs.                                                                 *)
(***************************************************************************)
\* setTimeout(..., 300000)
CleanupDelayMs == 300000
TickMs == CleanupDelayMs \div TicksPerWindow

UuidPool == <<"a", "b", "c", "e">>
\* the values uuidv4() can return
UUIDs == {<<UuidPool[i]>> : i \in 1..MaxFiles}
\* `${uuidv4()}.pdf`
FileIdOf(u) == u \o DotPdf

\* req.body.content of /generate-pdf: missing or "", or a text
Contents == {<<>>, <<"x">>}
\* what PDFKit emits for a text: a header chunk, the text, a trailer chunk
PdfChunks(content) == <<"%PDF">> \o content \o <<"%%EOF">>

Undefined == [ty |-> "undefined", s |-> <<>>]
\* req.body.filename
Filenames ==
  { Undefined, Str(<<"x">>), Str(<<"x", ".", "p", "d", "f">>),
    Str(<<"x", ".", "P", "D", "F">>),
    Str(<<".", ".", "/", ".", ".", "/", "x">>), Str(<<".", ".">>),
    Str(<<SUR>>), Num(<<"1">>) }
\* the default parameter values: filename = 'document.pdf' and
\* filename = 'edited-document.pdf'
DocumentPdf == Str(<<"d", "o", "c", "u", "m", "e", "n", "t">> \o DotPdf)
EditedDocumentPdf == Str(<<"e", "d", "i", "t", "e", "d", "-">> \o DocumentPdf.s)
Default(v, d) == IF v = Undefined THEN d ELSE v

\* req.params.fileId of GET /download: the file ids uuidv4 can give, a
\* well-formed id it never gives, and ids that fail the format
WellFormedUnknown == <<"0">> \o DotPdf
MalformedIds ==
  { <<".", ".", "/">> \o FileIdOf(<<"a">>), FileIdOf(<<"a">>) \o <<"/", ".">> }
DownloadIds == {FileIdOf(u) : u \in UUIDs} \cup {WellFormedUnknown} \cup MalformedIds
\* req.params.filename of GET /download
DownloadNames == {<<"x">> \o DotPdf, <<".", ".", "/", "x">>}

(***************************************************************************)
(* State.                                                                  *)
(***************************************************************************)
VARIABLES
  variant,   \* which server runs: "index" (src/index.js) or "part_006"
  up,        \* the node process is running
  now,       \* the clock, in ms
  files,     \* the file system: path |-> sequence of chunks written
  timers,    \* pending setTimeout callbacks of scheduleFileCleanup
  used,      \* the values uuidv4() has returned
  objs,      \* history: fileId |-> payload and time of each 200 downloadUrl
  docs,      \* PDFDocuments of /generate-pdf whose 'end'/'finish' is pending
  dls,       \* res.download calls in flight
  sent,      \* the HTTP response the latest step sent, if it sent one
  io         \* the error the latest step's callback or catch got, and the
             \* line it wrote with console.error

vars == <<variant, up, now, files, timers, used, objs, docs, dls, sent, io>>

\* the state of the Sheets service with per-user tokens
VARIABLES
  userTokens,   \* const userTokens = {}: user key |-> the tokens saved for it
  credentials,  \* oauth2Client.credentials, of the one client all routes share
  pending,      \* the handlers waiting at their await, with what they wait for
  res           \* the HTTP response the latest step of the service sent

sheetsVars == <<userTokens, credentials, pending, res>>

\* const userTokens = {}
NoTokens == [k \in {} |-> ""]
\* the credentials of new google.auth.OAuth2(...), before any setCredentials
NoCredentials == "none"
\* no response
NoRes == [route |-> "", status |-> 0, error |-> ""]
\* the Sheets service after its module has been loaded
SheetsStart ==
  /\ userTokens = NoTokens
  /\ credentials = NoCredentials
  /\ pending = {}
  /\ res = NoRes

Variants == {"index", "part_006"}

NoResponse == 0
Resp(route, status, fileId, name, body, url) ==
  [route |-> route, status |-> status, fileId |-> fileId, name |-> name,
   body |-> body, url |-> url, afterPut |-> FALSE]

\* no error reached the step and it wrote nothing with console.error
Quiet == [err |-> "none", log |-> "none"]
\* console.error(line, err)
Logged(err, line) == [err |-> err, log |-> line]
\* the step sent no response
Nothing == Resp("none", NoResponse, <<>>, <<>>, <<>>, <<>>)

Origin == "https://googlesheet-plugin.onrender.com/download/"
\* `https://googlesheet-plugin.onrender.com/download/${fileId}/${encoded}`
DownloadUrl(fileId, encoded) == <<Origin>> \o fileId \o <<"/">> \o encoded

\* fs.writeFileSync(filePath, bytes): creates or replaces the file
writeFileSync(fsys, path, bytes) ==
  [q \in DOMAIN fsys \cup {path} |-> IF q = path THEN bytes ELSE fsys[q]]
\* fs.unlink(filePath): the file system without the path
unlink(fsys, path) == [q \in DOMAIN fsys \ {path} |-> fsys[q]]

\* scheduleFileCleanup(filePath, fileId): setTimeout(..., 300000)
scheduleFileCleanup(filePath, fileId) ==
  timers \cup {[path |-> filePath, fileId |-> fileId, due |-> now + CleanupDelayMs]}

\* a generator that returns the same value every time
uuidv4Same == {<<UuidPool[1]>>}
\* uuidv4(): a value not returned before.  The values are opaque and
\* interchangeable, so the model hands them out in the order of UuidPool
uuidv4 ==
  {<<UuidPool[i]>> : i \in {j \in 1..MaxFiles :
                              /\ <<UuidPool[j]>> \notin used
                              /\ \A k \in 1..(j - 1) : <<UuidPool[k]>> \in used}}

\* index.js: filename.toLowerCase().endsWith('.pdf') ? filename : `${filename}.pdf`
\* (toLowerCase is not a function of a number: TypeError)
finalFilenameIndex(filename) ==
  IF filename.ty # "string" THEN [threw |-> TRUE, v |-> filename]
  ELSE [threw |-> FALSE,
        v |-> IF endsWith(toLowerCase(filename.s), DotPdf) THEN filename
              ELSE Str(filename.s \o DotPdf)]
\* part_006 uses filename as it is
finalFilename006(filename) == [threw |-> FALSE, v |-> filename]
finalFilename(filename) ==
  IF variant = "index" THEN finalFilenameIndex(filename) ELSE finalFilename006(filename)

\* the statements from finalFilename to scheduleFileCleanup, shared by the
\* put paths: they either throw or answer 200 and schedule the cleanup
BuildUrl(fileId, filename) ==
  LET ff  == finalFilename(filename)
      enc == IF ff.threw THEN [threw |-> TRUE, s |-> <<>>] ELSE encodeURIComponent(ff.v)
  IN  [threw |-> enc.threw, url |-> DownloadUrl(fileId, enc.s)]

\* an uncaught exception in a callback ends the process: its timers, its
\* open requests are gone; the files stay
Exit(route) ==
  /\ up' = FALSE
  /\ timers' = {}
  /\ docs' = {}
  /\ dls' = {}
  /\ sent' = Resp(route, NoResponse, <<>>, <<>>, <<>>, <<>>)
  /\ io' = Logged("Error", "Uncaught exception")

\* res.status(200).json({ downloadUrl }); scheduleFileCleanup(filePath, fileId)
AnswerAndSchedule(route, fileId, filePath, bytes, url) ==
  /\ sent' = Resp(route, 200, fileId, <<>>, <<>>, url)
  /\ objs' = [q \in DOMAIN objs \cup {fileId} |->
                IF q = fileId THEN [payload |-> bytes, createdAt |-> now] ELSE objs[q]]
  /\ timers' = scheduleFileCleanup(filePath, fileId)
  /\ io' = Quiet

(***************************************************************************)
(* POST /generate-pdf                                                      *)
(***************************************************************************)
\* a handler without the check
MissingNever(v) == FALSE
\* !content, !base64Data, !textToAdd: the field is missing or empty
Missing(v) == v = <<>>

\* src/index.js 192-205, 227-228: the handler up to doc.end().  req.body.filename
\* is read only in the 'end' callback, and the model draws it there
GeneratePdfIndex(content) ==
  /\ up /\ variant = "index"
  /\ IF Missing(content)
     THEN /\ sent' = Resp("generate-pdf", 400, <<>>, <<>>, <<>>, <<>>)
          /\ UNCHANGED docs
     ELSE /\ Cardinality(docs) < MaxDocs
          /\ docs' = docs \cup {[content |-> content, fileId |-> <<>>, written |-> 0,
                                  headersSent |-> FALSE]}
          /\ sent' = Nothing
  /\ io' = Quiet
  /\ UNCHANGED <<variant, up, now, files, timers, used, objs, dls>>

\* src/index.js 207-220: doc.on('end'), with uuidv4() returning one of ids;
\* res.status(200) after a response has been sent throws
\* ERR_HTTP_HEADERS_SENT
DocEndFrom(ids, d, filename) ==
  /\ up /\ variant = "index" /\ d \in docs
  /\ \E u \in ids :
       LET fileId   == FileIdOf(u)
           filePath == pathJoin(tempDir, fileId)
           bytes    == PdfChunks(d.content)
           built    == BuildUrl(fileId, Default(filename, DocumentPdf))
       IN  /\ used' = used \cup {u}
           /\ files' = writeFileSync(files, filePath, bytes)
           /\ IF built.threw \/ d.headersSent
              THEN Exit("generate-pdf") /\ UNCHANGED objs
              ELSE /\ AnswerAndSchedule("generate-pdf", fileId, filePath, bytes, built.url)
                   /\ docs' = docs \ {d}
                   /\ UNCHANGED <<up, dls>>
  /\ UNCHANGED <<variant, now>>

DocEnd(d, filename) == DocEndFrom(uuidv4, d, filename)

\* part_006 72-89, 102-103: the handler up to doc.end(); the file id is
\* drawn and the write stream is created before anything is written
GeneratePdf006From(ids, content) ==
  /\ up /\ variant = "part_006"
  /\ IF Missing(content)
     THEN /\ sent' = Resp("generate-pdf", 400, <<>>, <<>>, <<>>, <<>>)
          /\ UNCHANGED <<docs, used>>
     ELSE /\ Cardinality(docs) < MaxDocs
          /\ \E u \in ids :
               /\ used' = used \cup {u}
               /\ docs' = docs \cup {[content |-> content, fileId |-> FileIdOf(u),
                                      written |-> -1, headersSent |-> FALSE]}
          /\ sent' = Nothing
  /\ io' = Quiet
  /\ UNCHANGED <<variant, up, now, files, timers, objs, dls>>

GeneratePdf006(content) == GeneratePdf006From(uuidv4, content)

\* part_006 87: fs.createWriteStream(filePath) opens (creates) the file
StreamOpen(d) ==
  /\ up /\ variant = "part_006" /\ d \in docs /\ d.written = -1
  /\ files' = writeFileSync(files, pathJoin(tempDir, d.fileId), <<>>)
  /\ docs' = (docs \ {d}) \cup {[d EXCEPT !.written = 0]}
  /\ sent' = Nothing
  /\ io' = Quiet
  /\ UNCHANGED <<variant, up, now, timers, used, objs, dls>>

\* part_006 88: doc.pipe(writeStream) writes the next chunk to the file (to
\* a file no longer in the directory when its path has been unlinked)
StreamWrite(d) ==
  LET filePath == pathJoin(tempDir, d.fileId)
      chunks   == PdfChunks(d.content)
  IN  /\ up /\ variant = "part_006" /\ d \in docs
      /\ d.written >= 0 /\ d.written < Len(chunks)
      /\ files' = IF filePath \in DOMAIN files
                  THEN [files EXCEPT ![filePath] = Append(@, chunks[d.written + 1])]
                  ELSE files
      /\ docs' = (docs \ {d}) \cup {[d EXCEPT !.written = @ + 1]}
      /\ sent' = Nothing
      /\ io' = Quiet
      /\ UNCHANGED <<variant, up, now, timers, used, objs, dls>>

\* a callback that answers when the document has ended, whether or not the
\* stream has written it all
StreamFinishEarly(d, filename) ==
  LET filePath == pathJoin(tempDir, d.fileId)
      built    == BuildUrl(d.fileId, Default(filename, DocumentPdf))
  IN  /\ up /\ variant = "part_006" /\ d \in docs
      /\ d.written >= 0
      /\ IF built.threw \/ d.headersSent
         THEN Exit("generate-pdf") /\ UNCHANGED objs
         ELSE /\ AnswerAndSchedule("generate-pdf", d.fileId, filePath,
                                   PdfChunks(d.content), built.url)
              /\ docs' = docs \ {d}
              /\ UNCHANGED <<up, dls>>
      /\ UNCHANGED <<variant, now, files, used>>
\* part_006 96-100: writeStream.on('finish')
StreamFinish(d, filename) ==
  LET filePath == pathJoin(tempDir, d.fileId)
      built    == BuildUrl(d.fileId, Default(filename, DocumentPdf))
  IN  /\ up /\ variant = "part_006" /\ d \in docs
      /\ d.written = Len(PdfChunks(d.content))
      /\ IF built.threw \/ d.headersSent
         THEN Exit("generate-pdf") /\ UNCHANGED objs
         ELSE /\ AnswerAndSchedule("generate-pdf", d.fileId, filePath,
                                   PdfChunks(d.content), built.url)
              /\ docs' = docs \ {d}
              /\ UNCHANGED <<up, dls>>
      /\ UNCHANGED <<variant, now, files, used>>

(***************************************************************************)
(* POST /edit-pdf                                                          *)
(***************************************************************************)
\* req.body.base64Data: missing, not a PDF, a one-page PDF
Base64Inputs == {<<>>, <<"anVuaw==">>, <<"JVBERng=">>}
\* Buffer.from(base64Data, 'base64')
BufferFromBase64(b) ==
  CASE b = <<"anVuaw==">> -> <<"j", "u", "n", "k">>
    [] b = <<"JVBERng=">> -> PdfChunks(<<"x">>)
    [] OTHER -> <<>>
\* PDFLibDocument.load throws unless the bytes are a PDF
LoadThrows(bytes) == bytes = <<>> \/ bytes[1] # "%PDF"
\* pdfDoc.getPages().length of the PDFs of the model
PagesLength(bytes) == 1
\* page.drawText(textToAdd, ...); await pdfDoc.save()
SavedBytes(bytes, textToAdd) ==
  SubSeq(bytes, 1, Len(bytes) - 1) \o textToAdd \o <<bytes[Len(bytes)]>>
TextsToAdd == {<<>>, <<"e">>}
\* req.body.pageNumber: undefined or a number
PageNumbers == {[def |-> FALSE, n |-> 0]} \cup {[def |-> TRUE, n |-> k] : k \in 0..2}

\* the status of the answers /edit-pdf gives before it reads filename
\* (src/index.js 264-274), 0 when it gives none
EditEarlyStatus(base64Data, textToAdd, pageNumber) ==
  LET buffer    == BufferFromBase64(base64Data)
      pageIndex == pageNumber.n - 1
  IN  IF Missing(base64Data) \/ Missing(textToAdd) \/ ~pageNumber.def THEN 400
      ELSE IF LoadThrows(buffer) THEN 500
      ELSE IF pageIndex < 0 \/ pageIndex >= PagesLength(buffer) THEN 400
      ELSE NoResponse
EditRejected(b, t, n) == EditEarlyStatus(b, t, n) # NoResponse

\* src/index.js 261-296, part_006 138-172
EditPdfFrom(ids, base64Data, textToAdd, pageNumber, filename) ==
  LET buffer    == BufferFromBase64(base64Data)
      early     == EditEarlyStatus(base64Data, textToAdd, pageNumber)
      answer(status) ==
        /\ sent' = Resp("edit-pdf", status, <<>>, <<>>, <<>>, <<>>)
        /\ io' = IF status = 500 THEN Logged("Error", "Error in /edit-pdf:") ELSE Quiet
  IN  /\ up
      /\ IF early # NoResponse
         THEN answer(early) /\ UNCHANGED <<files, timers, used, objs>>
         ELSE \E u \in ids :
                LET fileId   == FileIdOf(u)
                    filePath == pathJoin(tempDir, fileId)
                    bytes    == SavedBytes(buffer, textToAdd)
                    built    == BuildUrl(fileId, Default(filename, EditedDocumentPdf))
                IN  /\ used' = used \cup {u}
                    /\ files' = writeFileSync(files, filePath, bytes)
                    /\ IF built.threw
                       THEN answer(500) /\ UNCHANGED <<timers, objs>>
                       ELSE AnswerAndSchedule("edit-pdf", fileId, filePath, bytes,
                                              built.url)
      /\ UNCHANGED <<variant, up, now, docs, dls>>
EditPdf(base64Data, textToAdd, pageNumber, filename) ==
  EditPdfFrom(uuidv4, base64Data, textToAdd, pageNumber, filename)

(***************************************************************************)
(* GET /download/:fileId/:filename                                         *)
(***************************************************************************)
InvalidFileIdFormat == <<"Invalid file ID format.">>
FileNotFoundOrExpired == <<"File not found or has expired.">>

\* the answer to the download d; afterPut records (for the properties)
\* whether the download was asked for after a put had returned its id
DownloadResp(d, status, name, body) ==
  [Resp("download", status, d.fileId, name, body, <<>>) EXCEPT !.afterPut = d.afterPut]

\* res.status(400).send('Invalid file ID format.')
InvalidIdResponse(fileId) == Resp("download", 400, fileId, <<>>, InvalidFileIdFormat, <<>>)
\* an answer that tells an expired id from an unknown one
NotFoundResponseLeaky(d) ==
  IF d.fileId \in DOMAIN objs
  THEN DownloadResp(d, 410, <<>>, <<"File has expired.">>)
  ELSE DownloadResp(d, 404, <<>>, FileNotFoundOrExpired)
\* the callback of res.download on an error before the headers are sent:
\* res.status(404).send('File not found or has expired.')
NotFoundResponse(d) == DownloadResp(d, 404, <<>>, FileNotFoundOrExpired)

\* console.error(`Error serving download for ${fileId}:`, err)
DownloadError(code) == Logged(code, "Error serving download")

\* a handler that builds the path from the display name
downloadPathByName(fileId, filename) == pathJoin(tempDir, filename)
\* the path res.download is given: path.join(tempDir, fileId)
downloadPath(fileId, filename) == pathJoin(tempDir, fileId)
\* the pattern without its ^ anchor
idAcceptedUnanchored(fileId) ==
  \E k \in 1..Len(fileId) : FileIdRegexTest(SubSeq(fileId, k, Len(fileId)))
\* the guard of the handler: the id has the expected format
idAccepted(fileId) == FileIdRegexTest(fileId)

\* src/index.js 170-177, part_006 47-56: the handler up to res.download
Download(fileId, filename) ==
  /\ up
  /\ IF ~idAccepted(fileId)
     THEN /\ sent' = InvalidIdResponse(fileId)
          /\ UNCHANGED <<dls>>
     ELSE /\ Cardinality(dls) < MaxDownloads
          /\ dls' = dls \cup {[fileId |-> fileId, filename |-> filename,
                               path |-> downloadPath(fileId, filename),
                               phase |-> "stat", size |-> 0,
                               afterPut |-> fileId \in DOMAIN objs]}
          /\ sent' = Nothing
  /\ io' = Quiet
  /\ UNCHANGED <<variant, up, now, files, timers, used, objs, docs>>

\* res.download, first step: fs.stat of the path; ENOENT reaches the
\* callback before any header is sent (src/index.js 177-183)
SendStat(d) ==
  /\ up /\ d \in dls /\ d.phase = "stat"
  /\ IF d.path \in DOMAIN files
     THEN /\ dls' = (dls \ {d}) \cup
                    {[d EXCEPT !.phase = "stream", !.size = Len(files[d.path])]}
          /\ sent' = Nothing
          /\ io' = Quiet
     ELSE /\ dls' = dls \ {d}
          /\ sent' = NotFoundResponse(d)
          /\ io' = DownloadError("ENOENT")
  /\ UNCHANGED <<variant, up, now, files, timers, used, objs, docs>>

\* a read stream that stops one chunk early
ReadRangeShort(fsys, path, size) == SubSeq(fsys[path], 1, size - 1)
\* what a read stream of the first `size` chunks of the file delivers
ReadRange(fsys, path, size) ==
  SubSeq(fsys[path], 1, IF size < Len(fsys[path]) THEN size ELSE Len(fsys[path]))

\* a download that removes the file it has served
SendStreamOnce(d) ==
  /\ up /\ d \in dls /\ d.phase = "stream"
  /\ dls' = dls \ {d}
  /\ IF d.path \in DOMAIN files
     THEN /\ sent' = DownloadResp(d, 200, d.filename, ReadRange(files, d.path, d.size))
          /\ files' = unlink(files, d.path)
          /\ io' = Quiet
     ELSE sent' = NotFoundResponse(d) /\ io' = DownloadError("ENOENT") /\ UNCHANGED files
  /\ UNCHANGED <<variant, up, now, timers, used, objs, docs>>
\* a read stream that answers with an empty body when the file has gone
SendStreamTruncating(d) ==
  /\ up /\ d \in dls /\ d.phase = "stream"
  /\ dls' = dls \ {d}
  /\ sent' = DownloadResp(d, 200, d.filename,
                          IF d.path \in DOMAIN files
                          THEN ReadRange(files, d.path, d.size) ELSE <<>>)
  /\ io' = Quiet
  /\ UNCHANGED <<variant, up, now, files, timers, used, objs, docs>>
\* res.download, second step: the file is opened and its first `size`
\* chunks are sent with Content-Disposition: attachment; filename=...
SendStream(d) ==
  /\ up /\ d \in dls /\ d.phase = "stream"
  /\ dls' = dls \ {d}
  /\ IF d.path \in DOMAIN files
     THEN /\ sent' = DownloadResp(d, 200, d.filename, ReadRange(files, d.path, d.size))
          /\ io' = Quiet
     ELSE /\ sent' = NotFoundResponse(d)
          /\ io' = DownloadError("ENOENT")
  /\ UNCHANGED <<variant, up, now, files, timers, used, objs, docs>>

(***************************************************************************)
(* Expiry, time, restart                                                   *)
(***************************************************************************)
\* a callback that reports every error of fs.unlink
unlinkCallbackLoud(code) ==
  IF code = "none" THEN Quiet ELSE Logged(code, "Error deleting temp file")
\* src/index.js 158-165: the callback of fs.unlink; err.code 'ENOENT' is
\* not reported, any other error is written with console.error
unlinkCallback(code) ==
  IF code \in {"none", "ENOENT"} THEN [err |-> code, log |-> "none"]
  ELSE Logged(code, "Error deleting temp file")
\* src/index.js 157-166: the timer callback; fs.unlink, ENOENT is ignored
TimerFire(t) ==
  /\ up /\ t \in timers /\ t.due <= now
  /\ timers' = timers \ {t}
  /\ files' = unlink(files, t.path)
  /\ io' = unlinkCallback(IF t.path \in DOMAIN files THEN "none" ELSE "ENOENT")
  /\ sent' = Nothing
  /\ UNCHANGED <<variant, up, now, used, objs, docs, dls>>

\* time passes; a running process runs a due timer before the clock moves on
Tick ==
  /\ now < MaxTicks * TickMs
  /\ ~(up /\ \E t \in timers : t.due <= now)
  /\ now' = now + TickMs
  /\ sent' = Nothing
  /\ io' = Quiet
  /\ UNCHANGED <<variant, up, files, timers, used, objs, docs, dls>>

\* a start that sweeps the directory
RestartSweeping ==
  /\ ~up
  /\ up' = TRUE
  /\ files' = [q \in {} |-> <<>>]
  /\ sent' = Nothing
  /\ io' = Quiet
  /\ UNCHANGED <<variant, now, timers, used, objs, docs, dls>>
\* src/index.js 146-154: the process is started again after it ended; the
\* directory is created only if missing and nothing in it is looked at
Restart ==
  /\ ~up
  /\ up' = TRUE
  /\ sent' = Nothing
  /\ io' = Quiet
  /\ UNCHANGED <<variant, now, files, timers, used, objs, docs, dls>>

NoFiles == [q \in {} |-> <<>>]

Init ==
  /\ variant \in Variants
  /\ up = TRUE
  /\ now = 0
  /\ files = NoFiles
  /\ timers = {}
  /\ used = {}
  /\ objs = NoFiles
  /\ docs = {}
  /\ dls = {}
  /\ sent = Nothing
  /\ io = Quiet
  /\ SheetsStart

Next ==
  \/ \E c \in Contents : GeneratePdfIndex(c) /\ UNCHANGED sheetsVars
  \/ \E d \in docs, f \in Filenames : DocEnd(d, f) /\ UNCHANGED sheetsVars
  \/ \E c \in Contents : GeneratePdf006(c) /\ UNCHANGED sheetsVars
  \/ \E d \in docs : StreamOpen(d) /\ UNCHANGED sheetsVars
  \/ \E d \in docs : StreamWrite(d) /\ UNCHANGED sheetsVars
  \/ \E d \in docs, f \in Filenames : StreamFinish(d, f) /\ UNCHANGED sheetsVars
  \/ \E b \in Base64Inputs, t \in TextsToAdd, n \in PageNumbers :
       \E f \in (IF EditRejected(b, t, n) THEN {Undefined} ELSE Filenames) :
         EditPdf(b, t, n, f) /\ UNCHANGED sheetsVars
  \/ \E i \in DownloadIds, f \in DownloadNames : Download(i, f) /\ UNCHANGED sheetsVars
  \/ \E d \in dls : SendStat(d) /\ UNCHANGED sheetsVars
  \/ \E d \in dls : SendStream(d) /\ UNCHANGED sheetsVars
  \/ \E t \in timers : TimerFire(t) /\ UNCHANGED sheetsVars
  \/ Tick /\ UNCHANGED sheetsVars
  \/ Restart /\ UNCHANGED sheetsVars

Spec == Init /\ [][Next]_vars

\* the callbacks the event loop owes are run, due timers fire, time passes
Fairness ==
  /\ WF_vars(Tick)
  /\ WF_vars(\E t \in timers : TimerFire(t))
  /\ WF_vars(\E d \in docs, f \in Filenames : DocEnd(d, f))
  /\ WF_vars(\E d \in docs : StreamOpen(d))
  /\ WF_vars(\E d \in docs : StreamWrite(d))
  /\ WF_vars(\E d \in docs, f \in Filenames : StreamFinish(d, f))
  /\ WF_vars(\E d \in dls : SendStat(d))
  /\ WF_vars(\E d \in dls : SendStream(d))
FairSpec == Spec /\ Fairness

(***************************************************************************)
(* Faults of the backing directory.  FaultSpec is the server on a          *)
(* directory whose operations can fail and that another party can clean.   *)
(***************************************************************************)
\* err.code of a failing fs operation other than 'ENOENT'
FaultCodes == {"EACCES", "EIO"}

\* another party (an operator, a cleaner of the tmp directory) removes a file
ManualCleanup(p) ==
  /\ p \in DOMAIN files
  /\ files' = unlink(files, p)
  /\ sent' = Nothing
  /\ io' = Quiet
  /\ UNCHANGED <<variant, up, now, timers, used, objs, docs, dls>>

\* a timer callback whose unlink error is thrown
TimerFireFaultThrows(t, code) ==
  /\ up /\ t \in timers /\ t.due <= now
  /\ t.path \in DOMAIN files
  /\ Exit("none")
  /\ UNCHANGED <<variant, now, files, used, objs>>
\* src/index.js 157-166: the timer callback when fs.unlink fails with an
\* error other than ENOENT: the file stays and the callback only reports
TimerFireFault(t, code) ==
  /\ up /\ t \in timers /\ t.due <= now
  /\ t.path \in DOMAIN files
  /\ timers' = timers \ {t}
  /\ io' = unlinkCallback(code)
  /\ sent' = Nothing
  /\ UNCHANGED <<variant, up, now, files, used, objs, docs, dls>>

\* src/index.js 207-212: fs.writeFileSync throws inside the 'end' callback,
\* where no try block is open: an uncaught exception
DocEndWriteFault(d) ==
  /\ up /\ variant = "index" /\ d \in docs
  /\ \E u \in uuidv4 : used' = used \cup {u}
  /\ Exit("generate-pdf")
  /\ UNCHANGED <<variant, now, files, objs>>

\* part_006 87-88: the write stream emits 'error' (the open or a write
\* failed); it has no 'error' listener, so the event is thrown: an uncaught
\* exception.  The file is as far as it was written
StreamFault(d) ==
  /\ up /\ variant = "part_006" /\ d \in docs
  /\ d.written < Len(PdfChunks(d.content))
  /\ Exit("generate-pdf")
  /\ UNCHANGED <<variant, now, files, used, objs>>

\* src/index.js 282-284, 293-295: fs.writeFileSync throws inside the try
\* block of /edit-pdf: the catch answers 500
EditPdfWriteFault(base64Data, textToAdd, pageNumber, code) ==
  /\ up
  /\ ~EditRejected(base64Data, textToAdd, pageNumber)
  /\ \E u \in uuidv4 : used' = used \cup {u}
  /\ sent' = Resp("edit-pdf", 500, <<>>, <<>>, <<>>, <<>>)
  /\ io' = Logged(code, "Error in /edit-pdf:")
  /\ UNCHANGED <<variant, up, now, files, timers, objs, docs, dls>>

\* src/index.js 177-183: res.download cannot stat the file for a reason
\* other than its absence; the callback gets the error before any header is
\* sent and answers as for a missing file
SendStatFault(d, code) ==
  /\ up /\ d \in dls /\ d.phase = "stat"
  /\ d.path \in DOMAIN files
  /\ dls' = dls \ {d}
  /\ sent' = NotFoundResponse(d)
  /\ io' = DownloadError(code)
  /\ UNCHANGED <<variant, up, now, files, timers, used, objs, docs>>

\* the steps of FaultSpec: the requests are well-formed puts that leave the
\* file name to its default and downloads of the ids uuidv4 can give
FaultNext ==
  \/ \E c \in Contents : GeneratePdfIndex(c) /\ UNCHANGED sheetsVars
  \/ \E d \in docs : DocEnd(d, Undefined) /\ UNCHANGED sheetsVars
  \/ \E c \in Contents : GeneratePdf006(c) /\ UNCHANGED sheetsVars
  \/ \E d \in docs : StreamOpen(d) /\ UNCHANGED sheetsVars
  \/ \E d \in docs : StreamWrite(d) /\ UNCHANGED sheetsVars
  \/ \E d \in docs : StreamFinish(d, Undefined) /\ UNCHANGED sheetsVars
  \/ \E b \in Base64Inputs, t \in TextsToAdd, n \in PageNumbers :
       /\ ~EditRejected(b, t, n)
       /\ EditPdf(b, t, n, Undefined) /\ UNCHANGED sheetsVars
  \/ \E u \in UUIDs, f \in DownloadNames : Download(FileIdOf(u), f) /\ UNCHANGED sheetsVars
  \/ \E d \in dls : SendStat(d) /\ UNCHANGED sheetsVars
  \/ \E d \in dls : SendStream(d) /\ UNCHANGED sheetsVars
  \/ \E t \in timers : TimerFire(t) /\ UNCHANGED sheetsVars
  \/ Tick /\ UNCHANGED sheetsVars
  \/ Restart /\ UNCHANGED sheetsVars
  \/ \E p \in DOMAIN files : ManualCleanup(p) /\ UNCHANGED sheetsVars
  \/ \E t \in timers, c \in FaultCodes : TimerFireFault(t, c) /\ UNCHANGED sheetsVars
  \/ \E d \in docs : DocEndWriteFault(d) /\ UNCHANGED sheetsVars
  \/ \E d \in docs : StreamFault(d) /\ UNCHANGED sheetsVars
  \/ \E b \in Base64Inputs, t \in TextsToAdd, n \in PageNumbers, c \in FaultCodes :
       EditPdfWriteFault(b, t, n, c) /\ UNCHANGED sheetsVars
  \/ \E d \in dls, c \in FaultCodes : SendStatFault(d, c) /\ UNCHANGED sheetsVars

FaultSpec == Init /\ [][FaultNext]_vars

(***************************************************************************)
(* Colliding ids.  uuidv4() draws 122 random bits and nothing in the code  *)
(* compares the value with the names in tempDir; CollisionSpec is Spec     *)
(* with a generator that can return a value again.                         *)
(***************************************************************************)
\* uuidv4() returns a new value, or a value it has returned before
uuidv4Any == uuidv4 \cup used

\* the steps of CollisionSpec: well-formed puts that leave the file name to
\* its default, the expiry actions and the clock
CollisionNext ==
  \/ \E c \in Contents : GeneratePdfIndex(c) /\ UNCHANGED sheetsVars
  \/ \E d \in docs : DocEndFrom(uuidv4Any, d, Undefined) /\ UNCHANGED sheetsVars
  \/ \E c \in Contents : GeneratePdf006From(uuidv4Any, c) /\ UNCHANGED sheetsVars
  \/ \E d \in docs : StreamOpen(d) /\ UNCHANGED sheetsVars
  \/ \E d \in docs : StreamWrite(d) /\ UNCHANGED sheetsVars
  \/ \E d \in docs : StreamFinish(d, Undefined) /\ UNCHANGED sheetsVars
  \/ \E b \in Base64Inputs, t \in TextsToAdd, n \in PageNumbers :
       /\ ~EditRejected(b, t, n)
       /\ EditPdfFrom(uuidv4Any, b, t, n, Undefined) /\ UNCHANGED sheetsVars
  \/ \E t \in timers : TimerFire(t) /\ UNCHANGED sheetsVars
  \/ Tick /\ UNCHANGED sheetsVars

CollisionSpec == Init /\ [][CollisionNext]_vars

(***************************************************************************)
(* The responses of POST /generate-pdf.  ResponseSpec adds the 'error'     *)
(* event of the PDF document, an exception thrown inside the handler's try *)
(* block, and the version of the handler in src/unnamed/part_003, which    *)
(* answers with the PDF itself and stores nothing.                         *)
(***************************************************************************)
\* src/index.js 222-225, part_006 90-94: doc.on('error').  The document
\* either is dead (ends = FALSE) or goes on to its 'end' (ends = TRUE); the
\* part_006 handler unlinks the path whatever the stream has done with it
DocError(d, ends) ==
  /\ up /\ variant \in {"index", "part_006"} /\ d \in docs /\ ~d.headersSent
  /\ sent' = Resp("generate-pdf", 500, <<>>, <<>>, <<>>, <<>>)
  /\ io' = Logged("Error", "PDF generation error:")
  /\ docs' = (docs \ {d}) \cup (IF ends THEN {[d EXCEPT !.headersSent = TRUE]} ELSE {})
  /\ files' = IF variant = "part_006" THEN unlink(files, pathJoin(tempDir, d.fileId))
              ELSE files
  /\ UNCHANGED <<variant, up, now, timers, used, objs, dls>>

\* the statements of the try block that can throw after the content check
ThrowSites == {"new PDFDocument", "doc.text"}
\* src/index.js 199-205, 227-232, part_006 77-89, 102-107: a statement of the
\* try block throws and the catch answers 500.  In part_006 the id is drawn
\* first and fs.createWriteStream(filePath) comes before doc.text
GeneratePdfThrows(content, site) ==
  /\ up /\ variant \in {"index", "part_006"} /\ ~Missing(content)
  /\ sent' = Resp("generate-pdf", 500, <<>>, <<>>, <<>>, <<>>)
  /\ io' = Logged("Error", "Synchronous error in /generate-pdf:")
  /\ IF variant = "part_006"
     THEN \E u \in uuidv4 :
            /\ used' = used \cup {u}
            /\ files' = IF site = "doc.text"
                        THEN writeFileSync(files, pathJoin(tempDir, FileIdOf(u)), <<>>)
                        ELSE files
     ELSE UNCHANGED <<used, files>>
  /\ UNCHANGED <<variant, up, now, timers, objs, docs, dls>>

\* part_003 41-50, 77-80: the handler up to doc.end()
GeneratePdf003(content) ==
  /\ up /\ variant = "part_003"
  /\ IF Missing(content)
     THEN /\ sent' = Resp("generate-pdf", 400, <<>>, <<>>, <<>>, <<>>)
          /\ UNCHANGED docs
     ELSE /\ Cardinality(docs) < MaxDocs
          /\ docs' = docs \cup {[content |-> content, fileId |-> <<>>, written |-> 0,
                                  headersSent |-> FALSE]}
          /\ sent' = Nothing
  /\ io' = Quiet
  /\ UNCHANGED <<variant, up, now, files, timers, used, objs, dls>>

\* part_003 56-65: doc.on('end'); inside the headersSent guard
\* filename.endsWith is not a function of a number (TypeError, uncaught)
DocEnd003(d, filename) ==
  LET name == Default(filename, DocumentPdf)
  IN  /\ up /\ variant = "part_003" /\ d \in docs
      /\ IF d.headersSent
         THEN /\ docs' = docs \ {d}
              /\ sent' = Nothing /\ io' = Quiet
              /\ UNCHANGED <<up, timers, dls>>
         ELSE IF name.ty # "string"
              THEN Exit("generate-pdf")
              ELSE /\ docs' = docs \ {d}
                   /\ sent' = Resp("generate-pdf", 200, <<>>,
                                   IF endsWith(name.s, DotPdf) THEN name.s
                                   ELSE name.s \o DotPdf,
                                   PdfChunks(d.content), <<>>)
                   /\ io' = Quiet
                   /\ UNCHANGED <<up, timers, dls>>
      /\ UNCHANGED <<variant, now, files, used, objs>>

\* part_003 68-74: doc.on('error')
DocError003(d, ends) ==
  /\ up /\ variant = "part_003" /\ d \in docs /\ ~d.headersSent
  /\ sent' = Resp("generate-pdf", 500, <<>>, <<>>, <<>>, <<>>)
  /\ io' = Logged("Error", "CRITICAL: PDF stream generation failed:")
  /\ docs' = (docs \ {d}) \cup (IF ends THEN {[d EXCEPT !.headersSent = TRUE]} ELSE {})
  /\ UNCHANGED <<variant, up, now, files, timers, used, objs, dls>>

ResponseVariants == Variants \cup {"part_003"}

ResponseInit ==
  /\ variant \in ResponseVariants
  /\ up = TRUE
  /\ now = 0
  /\ files = NoFiles
  /\ timers = {}
  /\ used = {}
  /\ objs = NoFiles
  /\ docs = {}
  /\ dls = {}
  /\ sent = Nothing
  /\ io = Quiet
  /\ SheetsStart

ResponseNext ==
  \/ \E c \in Contents : GeneratePdfIndex(c) /\ UNCHANGED sheetsVars
  \/ \E d \in docs, f \in Filenames : DocEnd(d, f) /\ UNCHANGED sheetsVars
  \/ \E c \in Contents : GeneratePdf006(c) /\ UNCHANGED sheetsVars
  \/ \E d \in docs : StreamOpen(d) /\ UNCHANGED sheetsVars
  \/ \E d \in docs : StreamWrite(d) /\ UNCHANGED sheetsVars
  \/ \E d \in docs, f \in Filenames : StreamFinish(d, f) /\ UNCHANGED sheetsVars
  \/ \E d \in docs, e \in BOOLEAN : DocError(d, e) /\ UNCHANGED sheetsVars
  \/ \E c \in Contents, s \in ThrowSites : GeneratePdfThrows(c, s) /\ UNCHANGED sheetsVars
  \/ \E c \in Contents : GeneratePdf003(c) /\ UNCHANGED sheetsVars
  \/ \E d \in docs, f \in Filenames : DocEnd003(d, f) /\ UNCHANGED sheetsVars
  \/ \E d \in docs, e \in BOOLEAN : DocError003(d, e) /\ UNCHANGED sheetsVars
  \/ \E t \in timers : TimerFire(t) /\ UNCHANGED sheetsVars
  \/ Tick /\ UNCHANGED sheetsVars
  \/ Restart /\ UNCHANGED sheetsVars

ResponseSpec == ResponseInit /\ [][ResponseNext]_vars

(***************************************************************************)
(* The Sheets service with per-user tokens (src/unnamed/part_001; the      *)
(* routes outside /gsheets/perform are the same text in part_003).  Every  *)
(* handler runs to its await in one step of the event loop; what it awaits *)
(* settles in a later step, and other handlers run in between.  The Google *)
(* client takes the Authorization of a call from oauth2Client.credentials  *)
(* when the call is made.                                                  *)
(***************************************************************************)
\* handlers that may wait at their await at one time
MaxPending == 2

\* req.query.user, req.body.user: not given
NoUser == ""
\* the users of the requests; "constructor" is a name Object.prototype has
SheetUsers == {NoUser, "alice", "constructor"}
\* user || "default"
UserKey(user) == IF user = NoUser THEN "default" ELSE user
\* the Google accounts that can give consent; the tokens of an account are
\* written as the account
Accounts == {"acctA", "acctB"}
\* req.query.code: the code Google gave for an account, or no valid code
Codes == Accounts \cup {"invalid"}
\* the property names an object literal inherits
ObjectPrototype == {"constructor"}
\* userTokens[key]: the own property, else the inherited one, else undefined
userTokensAt(key) ==
  IF key \in DOMAIN userTokens THEN userTokens[key]
  ELSE IF key \in ObjectPrototype THEN "function Object"
  ELSE "undefined"
\* a value passes if (!value) return ...
Truthy(value) == value # "undefined"

PlainRoutes == {"/drive/files", "/sheets/read", "/sheets/write"}
PerformRoute == "/gsheets/perform"
CallbackRoute == "/auth/callback"
\* req.body.action
PerformActions == {"get_auth_url", "list_files", "read", "write", "delete"}
\* req.body.fileId, range and values: all given, one of them not given, or
\* values given but not an array
Params ==
  { [fileId |-> "f", range |-> "A1", valuesIsArray |-> TRUE],
    [fileId |-> "", range |-> "A1", valuesIsArray |-> TRUE],
    [fileId |-> "f", range |-> "", valuesIsArray |-> TRUE],
    [fileId |-> "f", range |-> "A1", valuesIsArray |-> FALSE] }

\* the request bodies of an action: the actions that read no parameter are
\* sent with all of them given
ParamsOf(action) ==
  IF action \in {"read", "write"} THEN Params
  ELSE {[fileId |-> "f", range |-> "A1", valuesIsArray |-> TRUE]}

Res(route, status, error) ==
  [route |-> route, status |-> status, error |-> error]
\* res.status(401).json({ error: "User not authenticated" })
NotAuthenticated(route) ==
  Res(route, 401, "User not authenticated")

\* oauth2Client.setCredentials(tokens) of a client that keeps what it was
\* first given
setCredentialsOnce(tokens) ==
  IF credentials = NoCredentials THEN tokens ELSE credentials
\* oauth2Client.setCredentials(tokens): the new credentials of the client
setCredentials(tokens) == tokens

\* the handler of user key u at its await of a Drive or Sheets call: stored
\* is userTokens[u] as the handler read it, creds is what the call carries,
\* read from the shared client when the call is made
Call(route, u, stored) ==
  [route |-> route, user |-> u, stored |-> stored, creds |-> credentials',
   code |-> ""]

\* GET /auth/url
AuthUrl ==
  /\ res' = Res("/auth/url", 200, "")
  /\ UNCHANGED <<userTokens, credentials, pending>>
  /\ UNCHANGED vars

\* GET /auth/callback up to await oauth2Client.getToken(code)
AuthCallback(code, user) ==
  /\ Cardinality(pending) < MaxPending
  /\ pending' = pending \cup
       {[route |-> CallbackRoute, user |-> UserKey(user), stored |-> "",
         creds |-> "", code |-> code]}
  /\ res' = NoRes
  /\ UNCHANGED <<userTokens, credentials>>
  /\ UNCHANGED vars

\* GET /auth/callback after getToken has resolved: the tokens are saved
AuthCallbackDone(r) ==
  /\ r \in pending
  /\ r.route = CallbackRoute
  /\ r.code \in Accounts
  /\ userTokens' = [k \in DOMAIN userTokens \cup {r.user} |->
                      IF k = r.user THEN r.code ELSE userTokens[k]]
  /\ pending' = pending \ {r}
  /\ res' = Res(CallbackRoute, 200, "")
  /\ UNCHANGED credentials
  /\ UNCHANGED vars

\* GET /drive/files, POST /sheets/read, POST /sheets/write up to the await
PlainApi(route, user) ==
  LET u == UserKey(user)
      tokens == userTokensAt(u)
  IN
  /\ route \in PlainRoutes
  /\ IF ~Truthy(tokens)
       THEN /\ res' = NotAuthenticated(route)
            /\ UNCHANGED <<credentials, pending>>
       ELSE /\ Cardinality(pending) < MaxPending
            /\ credentials' = setCredentials(tokens)
            /\ pending' = pending \cup {Call(route, u, tokens)}
            /\ res' = NoRes
  /\ UNCHANGED userTokens
  /\ UNCHANGED vars

\* POST /gsheets/perform up to its await or its return
Perform(action, user, p) ==
  LET u == UserKey(user)
      tokens == userTokensAt(u)
      unauthenticated ==
        /\ res' = NotAuthenticated(PerformRoute)
        /\ UNCHANGED <<credentials, pending>>
      invalid(message) ==
        /\ credentials' = setCredentials(tokens)
        /\ res' = Res(PerformRoute, 400, message)
        /\ UNCHANGED pending
      call ==
        /\ Cardinality(pending) < MaxPending
        /\ credentials' = setCredentials(tokens)
        /\ pending' = pending \cup {Call(PerformRoute, u, tokens)}
        /\ res' = NoRes
  IN
  /\ CASE action = "get_auth_url" ->
            /\ res' = Res(PerformRoute, 200, "")
            /\ UNCHANGED <<credentials, pending>>
       [] action = "list_files" ->
            IF ~Truthy(tokens) THEN unauthenticated ELSE call
       [] action = "read" ->
            IF ~Truthy(tokens) THEN unauthenticated
            ELSE IF p.fileId = "" \/ p.range = ""
              THEN invalid("fileId and range are required for 'read'.")
              ELSE call
       [] action = "write" ->
            IF ~Truthy(tokens) THEN unauthenticated
            ELSE IF p.fileId = "" \/ p.range = "" \/ ~p.valuesIsArray
              THEN invalid("fileId, range, and values (2D array) are required for 'write'.")
              ELSE call
       [] OTHER ->
            /\ res' = Res(PerformRoute, 400, "Unknown action")
            /\ UNCHANGED <<credentials, pending>>
  /\ UNCHANGED userTokens
  /\ UNCHANGED vars

\* the awaited Drive or Sheets call resolves: res.json(...) of its data
ApiResolve(r) ==
  /\ r \in pending
  /\ r.route \in PlainRoutes \cup {PerformRoute}
  /\ r.creds \in Accounts
  /\ pending' = pending \ {r}
  /\ res' = Res(r.route, 200, "")
  /\ UNCHANGED <<userTokens, credentials>>
  /\ UNCHANGED vars

\* the awaited call of /gsheets/perform rejects: the catch answers
PerformCatch(r) ==
  /\ r \in pending
  /\ r.route = PerformRoute
  /\ pending' = pending \ {r}
  /\ res' = Res(PerformRoute, 500, "Internal error")
  /\ UNCHANGED <<userTokens, credentials>>
  /\ UNCHANGED vars

\* what becomes of a rejection no handler catches: the request is left
\* without an answer, the framework answers 500, or the process ends
RejectionOutcomes == {"unanswered", "500", "exit"}

\* the awaited getToken or call of a handler without try rejects
UnhandledRejection(r, outcome) ==
  /\ r \in pending
  /\ r.route \in PlainRoutes \cup {CallbackRoute}
  /\ IF outcome = "exit"
       THEN /\ userTokens' = NoTokens
            /\ credentials' = NoCredentials
            /\ pending' = {}
            /\ res' = NoRes
       ELSE /\ pending' = pending \ {r}
            /\ res' = IF outcome = "500" THEN Res(r.route, 500, "")
                      ELSE NoRes
            /\ UNCHANGED <<userTokens, credentials>>
  /\ UNCHANGED vars

SheetsInit ==
  /\ SheetsStart
  /\ variant = "part_001"
  /\ up = TRUE
  /\ now = 0
  /\ files = NoFiles
  /\ timers = {}
  /\ used = {}
  /\ objs = NoFiles
  /\ docs = {}
  /\ dls = {}
  /\ sent = Nothing
  /\ io = Quiet

SheetsNext ==
  \/ AuthUrl
  \/ \E c \in Codes, u \in SheetUsers : AuthCallback(c, u)
  \/ \E r \in pending : AuthCallbackDone(r)
  \/ \E route \in PlainRoutes, u \in SheetUsers : PlainApi(route, u)
  \/ \E a \in PerformActions, u \in SheetUsers :
       \E p \in ParamsOf(a) : Perform(a, u, p)
  \/ \E r \in pending : ApiResolve(r)
  \/ \E r \in pending : PerformCatch(r)
  \/ \E r \in pending, o \in RejectionOutcomes : UnhandledRejection(r, o)

SheetsSpec == SheetsInit /\ [][SheetsNext]_sheetsVars

(***************************************************************************)
(* The properties.                                                         *)
(***************************************************************************)
\* the backing path of a file id
PathOf(fileId) == Append(tempDir, fileId)
\* createdAt + retentionWindow of a stored object
ExpiresAt(fileId) == objs[fileId].createdAt + CleanupDelayMs
\* C1: a download of an id that a put has returned, asked for after the put
\* and answered strictly before createdAt + 300000 ms, is answered 200 with
\* exactly the bytes the put wrote
C1_RoundTrip ==
  (/\ sent.route = "download" /\ sent.afterPut
   /\ now < ExpiresAt(sent.fileId))
    => (sent.status = 200 /\ sent.body = objs[sent.fileId].payload)
C1_Witness ==
  /\ sent.route = "download" /\ sent.status = 200 /\ sent.afterPut
  /\ now < ExpiresAt(sent.fileId)
  /\ sent.body = objs[sent.fileId].payload

\* C2: once createdAt + 300000 ms has passed for a stored object, its file is
\* gone from the directory and a download of its id is answered not found
C2_GoneAfterExpiry ==
  \A id \in DOMAIN objs :
    (up /\ now > ExpiresAt(id))
      => /\ PathOf(id) \notin DOMAIN files
         /\ (sent.route = "download" /\ sent.fileId = id) => sent.status = 404

\* C3: while the process keeps running, every file the put paths write is
\* eventually removed from the directory
C3_EventuallyRemoved ==
  ([]up) => \A u \in UUIDs :
              (PathOf(FileIdOf(u)) \in DOMAIN files)
                ~> (PathOf(FileIdOf(u)) \notin DOMAIN files)

\* C4: a download of an id that no put has returned serves no bytes (the 400
\* of an ill-formed id counts as not found here)
C4_UnissuedNotFound ==
  (sent.route = "download" /\ sent.fileId \notin DOMAIN objs)
    => sent.status \in {400, 404}

\* the object of the id was stored and its file has been removed
Expired(fileId) == fileId \in DOMAIN objs /\ PathOf(fileId) \notin DOMAIN files
\* uuidv4 never gave the id
NeverExisted(fileId) == \A u \in used : fileId # FileIdOf(u)
\* C5: the answer to a download of a well-formed id is the same, 404 with the
\* same text and no file name, whether the object has expired or the id
\* never existed
C5_ExpiredLikeUnknown ==
  (/\ sent.route = "download"
   /\ FileIdRegexTest(sent.fileId)
   /\ Expired(sent.fileId) \/ NeverExisted(sent.fileId))
    => /\ sent.status = 404
       /\ sent.body = FileNotFoundOrExpired
       /\ sent.name = <<>>
C5_Witness ==
  /\ sent.route = "download" /\ sent.status = 404
  /\ Expired(sent.fileId)

DownloadStep == up /\ up' /\ (dls' # dls \/ sent'.route = "download")
\* C7: no step of a download changes a file, the set of files, a pending
\* cleanup timer or the record of what was stored
C7_DownloadChangesNothing ==
  [][DownloadStep => UNCHANGED <<files, timers, objs, used, docs, now>>]_vars
C7_Witness ==
  /\ sent.route = "download" /\ sent.status = 200
  /\ \E t \in timers : t.fileId = sent.fileId
  /\ PathOf(sent.fileId) \in DOMAIN files

\* a put whose payload field is missing or empty
EmptyPut ==
  \/ GeneratePdfIndex(<<>>)
  \/ GeneratePdf006(<<>>)
  \/ \E t \in TextsToAdd, n \in PageNumbers : EditPdf(<<>>, t, n, Undefined)
\* C8: a put with an empty payload is answered 400, and it creates no file,
\* draws no id, starts no document and schedules no timer
C8_EmptyPutRejected ==
  [][EmptyPut => /\ sent'.status = 400
                 /\ UNCHANGED <<files, timers, used, objs, docs>>]_vars
C8_Witness ==
  /\ sent.route = "generate-pdf" /\ sent.status = 400
  /\ DOMAIN files # {}

\* a "." or ".." segment between the "/" of a reference
HasDotSegment(url) ==
  LET segs == SplitSlash(url, <<>>)
  IN  \E i \in 1..Len(segs) : segs[i] \in {<<".">>, <<".", ".">>}
\* C9: the reference a put returns has no dot segment, whatever the name, and
\* the file written is tempDir/<the id the store drew>
C9_NoTraversal ==
  (sent.route \in {"generate-pdf", "edit-pdf"} /\ sent.status = 200)
    => /\ ~HasDotSegment(sent.url)
       /\ PathOf(sent.fileId) \in DOMAIN files
       /\ \E u \in used : sent.fileId = FileIdOf(u)

\* s is the first chunks of t
IsPrefix(s, t) == Len(s) <= Len(t) /\ SubSeq(t, 1, Len(s)) = s
\* C10: the path a download reads is tempDir/<fileId>, whatever the display
\* name: a 200 carries chunks of that file, a 404 means that file is absent
C10_NameDoesNotChoose ==
  /\ \A d \in dls : d.path = PathOf(d.fileId)
  /\ (sent.route = "download" /\ sent.status = 200)
       => /\ PathOf(sent.fileId) \in DOMAIN files
          /\ IsPrefix(sent.body, files[PathOf(sent.fileId)])
  /\ (sent.route = "download" /\ sent.status = 404)
       => PathOf(sent.fileId) \notin DOMAIN files
C10_Witness ==
  /\ sent.route = "download" /\ sent.status = 200
  /\ sent.name = <<".", ".", "/", "x">>
  /\ sent.fileId \in DOMAIN objs
  /\ sent.body = objs[sent.fileId].payload

\* C11: a download answered 200 carries the complete payload of the put of
\* its id, never a part of it: of the stored object when the put has
\* answered, of the document still being written otherwise
C11_NoPartialRead ==
  (sent.route = "download" /\ sent.status = 200)
    => /\ sent.fileId \in DOMAIN objs => sent.body = objs[sent.fileId].payload
       /\ \A d \in docs : d.fileId = sent.fileId => sent.body = PdfChunks(d.content)

\* C12: a download of a stored object, asked for after its put, that meets
\* the expiry of the object is answered either 200 with the whole payload or
\* 404 'File not found or has expired.' with the file gone, and nothing else
C12_GetOrNotFound ==
  (sent.route = "download" /\ sent.afterPut)
    => \/ /\ sent.status = 200
          /\ sent.body = objs[sent.fileId].payload
       \/ /\ sent.status = 404
          /\ sent.body = FileNotFoundOrExpired
          /\ PathOf(sent.fileId) \notin DOMAIN files
\* the download won the race: it was answered while the timer of its object
\* was due and had not yet run
C12_Witness ==
  /\ sent.route = "download" /\ sent.afterPut /\ sent.status = 200
  /\ sent.body = objs[sent.fileId].payload
  /\ \E t \in timers : t.fileId = sent.fileId /\ t.due <= now /\ up

TimersOf(fileId) == {t \in timers : t.fileId = fileId}
\* C14: in a running process every stored object still in the directory has
\* exactly one pending expiry action, due 300000 ms after its creation and
\* aimed at its own file, and no expiry action is pending for an id that no
\* successful put returned
C14_ExactlyOneExpiry ==
  up => /\ \A id \in DOMAIN objs :
             PathOf(id) \in DOMAIN files
               => /\ Cardinality(TimersOf(id)) = 1
                  /\ \A t \in TimersOf(id) :
                       t.due = ExpiresAt(id) /\ t.path = PathOf(id)
        /\ \A t \in timers : t.fileId \in DOMAIN objs

\* C15: when the expiry action runs for a file that is already gone, the step
\* ends the timer and nothing else: nothing is written with console.error,
\* no response is sent, the process keeps running, and the directory, the
\* other timers and the requests in flight are as before
C15_IdempotentDeletion ==
  [][\A t \in timers :
       (TimerFire(t) /\ t.path \notin DOMAIN files)
         => /\ io'.log = "none" /\ sent' = Nothing /\ up'
            /\ timers' = timers \ {t}
            /\ UNCHANGED <<files, used, objs, docs, dls, now>>]_vars
\* the unlink of an expiry action has just met ENOENT
C15_Witness ==
  /\ io.err = "ENOENT" /\ io.log = "none"
  /\ sent = Nothing /\ up
  /\ \E id \in DOMAIN objs : now >= ExpiresAt(id) /\ PathOf(id) \notin DOMAIN files

\* C16: when the unlink of an expiry action fails for a reason other than
\* ENOENT, the step writes the error with console.error and does nothing
\* else: the process keeps running and every other pending expiry action
\* stays pending, to fire when it is due
C16_DeletionFaultOnlyLogged ==
  [][\A t \in timers, c \in FaultCodes :
       TimerFireFault(t, c)
         => /\ io' = Logged(c, "Error deleting temp file")
            /\ up' /\ sent' = Nothing
            /\ timers' = timers \ {t}
            /\ UNCHANGED <<files, used, objs, docs, dls, now>>]_vars
\* a deletion has just failed while the expiry of another object is pending
C16_Witness ==
  /\ io.log = "Error deleting temp file" /\ io.err \in FaultCodes
  /\ up
  /\ \E t \in timers : PathOf(t.fileId) \in DOMAIN files

\* a step in which an operation on the backing directory fails
BackingStoreFault ==
  \/ \E d \in docs : DocEndWriteFault(d)
  \/ \E d \in docs : StreamFault(d)
  \/ \E b \in Base64Inputs, t \in TextsToAdd, n \in PageNumbers, c \in FaultCodes :
       EditPdfWriteFault(b, t, n, c)
  \/ \E d \in dls, c \in FaultCodes : SendStatFault(d, c)
  \/ \E t \in timers, c \in FaultCodes : TimerFireFault(t, c)
\* C17: a fault of the backing directory in a put, a get or an expiry
\* leaves the process running with its timers and its other requests, and a
\* put or get that met the fault is answered with an error status
C17_FaultsAreScoped ==
  [][BackingStoreFault
       => /\ up'
          /\ timers \ timers' \subseteq {t \in timers : t.due <= now}
          /\ sent'.route # "none" => sent'.status \in {404, 500}]_vars

\* C18: the file of a stored object keeps its bytes for as long as it is in
\* the directory: no step replaces or truncates it
C18_NoOverwrite ==
  [][\A id \in DOMAIN objs :
       (PathOf(id) \in DOMAIN files /\ PathOf(id) \in DOMAIN files')
         => files'[PathOf(id)] = files[PathOf(id)]]_vars

\* C19: the end of the process takes every pending expiry action with it,
\* the next start neither looks at the directory nor schedules anything, and
\* from then on a stored object's file without an expiry action stays in the
\* directory with its bytes, and without one, at every step
C19_RestartLosesTimers ==
  [][/\ (up /\ ~up') => timers' = {}
     /\ (~up /\ up') => (timers' = {} /\ files' = files)
     /\ \A id \in DOMAIN objs :
          (PathOf(id) \in DOMAIN files /\ TimersOf(id) = {})
            => /\ PathOf(id) \in DOMAIN files'
               /\ files'[PathOf(id)] = files[PathOf(id)]
               /\ {t \in timers' : t.fileId = id} = {}]_vars
\* after a restart an object is downloaded although its retention window
\* has passed
C19_Witness ==
  /\ up /\ sent.route = "download" /\ sent.status = 200 /\ sent.afterPut
  /\ now > ExpiresAt(sent.fileId)
  /\ TimersOf(sent.fileId) = {}
  /\ sent.body = objs[sent.fileId].payload
  /\ PathOf(sent.fileId) \in DOMAIN files

\* the display name at the end of a download URL, as it is encoded there
UrlName(fileId, url) == SubSeq(url, Len(fileId) + 3, Len(url))
\* C20: the display name in the reference of every put answered 200 ends
\* with ".pdf", in whatever case
C20_PdfExtension ==
  (sent.route \in {"generate-pdf", "edit-pdf"} /\ sent.status = 200)
    => endsWith(toLowerCase(UrlName(sent.fileId, sent.url)), DotPdf)

\* C21: when a put answers 200 the file of the returned id is in the
\* directory with the whole payload and its expiry timer is set; an id whose
\* document is still being written has not been returned; and every pending
\* expiry timer is that of a returned id, aimed at its file, which holds the
\* whole payload if it is still there
C21_PutOrdering ==
  /\ (sent.route \in {"generate-pdf", "edit-pdf"} /\ sent.status = 200)
       => /\ PathOf(sent.fileId) \in DOMAIN files
          /\ files[PathOf(sent.fileId)] = objs[sent.fileId].payload
          /\ TimersOf(sent.fileId) # {}
  /\ \A d \in docs : d.fileId \notin DOMAIN objs
  /\ \A t \in timers :
       /\ t.fileId \in DOMAIN objs
       /\ t.path = PathOf(t.fileId)
       /\ t.path \in DOMAIN files => files[t.path] = objs[t.fileId].payload
\* a streamed put has just answered 200 while the timer of an earlier put
\* is pending
C21_Witness ==
  /\ variant = "part_006"
  /\ sent.route = "generate-pdf" /\ sent.status = 200
  /\ files[PathOf(sent.fileId)] = PdfChunks(<<"x">>)
  /\ TimersOf(sent.fileId) # {}
  /\ \E t \in timers : t.fileId # sent.fileId

\* the request of the document d is over after the step
Leaves(d) == \A e \in docs' : e.content # d.content \/ e.fileId # d.fileId
\* C22: a /generate-pdf request whose document was started has, when it is
\* over, been answered exactly once, and if the answer was an error the
\* step leaves no new file, no new timer and no file of the request's id; a
\* request answered 500 by the handler itself leaves no new file either
C22_ExactlyOneResponse ==
  [][/\ \A d \in docs :
          Leaves(d) =>
            LET answered == sent'.route = "generate-pdf" /\ sent'.status # NoResponse
                failed   == d.headersSent \/ (answered /\ sent'.status # 200)
            IN  /\ (IF d.headersSent THEN 1 ELSE 0) + (IF answered THEN 1 ELSE 0) = 1
                /\ failed => /\ DOMAIN files' \subseteq DOMAIN files
                             /\ timers' \subseteq timers
                             /\ d.fileId # <<>> => PathOf(d.fileId) \notin DOMAIN files'
     /\ (sent'.route = "generate-pdf" /\ sent'.status = 500)
          => DOMAIN files' \subseteq DOMAIN files]_vars
\* the handlers waiting for a Drive or Sheets call
ApiCalls == {r \in pending : r.route \in PlainRoutes \cup {PerformRoute}}

Refused ==
  /\ res'.status = 401
  /\ res'.error = "User not authenticated"
  /\ pending' = pending
  /\ credentials' = credentials

\* C24: a list, read or write request for a user key without saved tokens is
\* answered 401 "User not authenticated" with no call and no change of the
\* shared credentials, in /gsheets/perform whatever the parameters are, and
\* "get_auth_url" is answered 200 without tokens; a key gets tokens only in
\* the step in which /auth/callback completes for it
C24_UnauthenticatedRefused ==
  [][ /\ \A user \in SheetUsers :
           UserKey(user) \notin DOMAIN userTokens =>
             /\ \A route \in PlainRoutes : PlainApi(route, user) => Refused
             /\ \A a \in {"list_files", "read", "write"}, p \in Params :
                  Perform(a, user, p) => Refused
             /\ \A p \in Params :
                  Perform("get_auth_url", user, p) => res'.status = 200
      /\ \A k \in DOMAIN userTokens' \ DOMAIN userTokens :
           \E r \in pending : r.user = k /\ AuthCallbackDone(r)
    ]_sheetsVars

=============================================================================
